---- MODULE Spec2Model ----
(***************************************************************************)
(* Model of figs/figs_making.py: the satellite classifier, the raster      *)
(* readers, the dataset scanner (calculate_dataset_stats), the sample      *)
(* renderer (plot_samples) and main.                                       *)
(*                                                                         *)
(* Strings are sequences of one-character strings, so that str.replace,    *)
(* str.startswith and str.endswith are computed character by character.    *)
(* A defaultdict(int) is a function whose DOMAIN is the set of keys that   *)
(* have been touched.  A numpy array is abstracted to what the code reads  *)
(* from it: a label band to [size, water], an image to the band list read. *)
(*                                                                         *)
(* Spec is a whole run of main; SpecScan is calculate_dataset_stats alone, *)
(* over label rasters of every size; SpecDetect is detect_satellite over   *)
(* filenames built from prefix characters and the label suffix; SpecRead   *)
(* is read_multiband_image over every satellite label and band count.      *)
(***************************************************************************)
EXTENDS Integers, Sequences, FiniteSets, TLC

(* ----------------------------- bounds ---------------------------------- *)
\* largest number of entries in the label directory
MaxFiles == 2
\* largest width x height of a label raster
MaxPixels == 2
\* largest band count of a scene raster
MaxBands == 5
\* largest number of pieces a classifier test filename is built from
MaxPieces == 3

(* ----------------------------- strings --------------------------------- *)
TRUTH_SUFFIX == <<"_","t","r","u","t","h",".","t","i","f">>
TIF_SUFFIX == <<".","t","i","f">>

SCENE_DIR == "scene"
TRUTH_DIR == "truth"
OUTPUT_DIR == "figures"

SAMPLE_SCENES ==
  << <<"I","8","_","s","c","e","n","e","_","1","2",".","t","i","f">>,
     <<"S","2","A","_","L","2","A","_","2","0","1","9","0","3","1","4","_",
       "N","0","2","1","1","_","R","0","0","8","_","S","3",".","t","i","f">> >>

\* str.startswith(p)
StartsWith(s, p) ==
  /\ Len(s) >= Len(p)
  /\ SubSeq(s, 1, Len(p)) = p

\* str.endswith(p)
EndsWith(s, p) ==
  /\ Len(s) >= Len(p)
  /\ SubSeq(s, Len(s) - Len(p) + 1, Len(s)) = p

\* str.replace(old, new): every non-overlapping occurrence, left to right
RECURSIVE Replace(_, _, _)
Replace(s, old, new) ==
  IF Len(s) < Len(old) THEN s
  ELSE IF StartsWith(s, old)
       THEN new \o Replace(SubSeq(s, Len(old) + 1, Len(s)), old, new)
       ELSE <<Head(s)>> \o Replace(Tail(s), old, new)

\* os.path.join(dir, name)
PathJoin(dir, name) == <<dir, name>>

(* ------------------------ band configuration --------------------------- *)
SatLabels ==
  {"Landsat-5", "Landsat-7", "Landsat-8", "Landsat-9", "Sentinel-2", "Other"}

BAND_MAP ==
  [k \in SatLabels |->
     CASE k = "Sentinel-2" -> <<4, 3, 2>>
       [] k = "Landsat-8" -> <<3, 2, 1>>
       [] k = "Landsat-9" -> <<5, 4, 3>>
       [] k = "Landsat-5" -> <<3, 2, 1>>
       [] k = "Landsat-7" -> <<3, 2, 1>>
       [] k = "Other" -> <<1, 2, 3>>]

get_rgb_bands(satellite_type) ==
  IF satellite_type \in DOMAIN BAND_MAP
  THEN BAND_MAP[satellite_type]
  ELSE <<1, 2, 3>>

detect_satellite(fname) ==
  LET clean_name == Replace(fname, TRUTH_SUFFIX, <<>>)
  IN IF StartsWith(clean_name, <<"I","5">>) THEN "Landsat-5"
     ELSE IF StartsWith(clean_name, <<"I","7">>) THEN "Landsat-7"
     ELSE IF StartsWith(clean_name, <<"I","8">>) THEN "Landsat-8"
     ELSE IF StartsWith(clean_name, <<"I","9">>) THEN "Landsat-9"
     ELSE IF StartsWith(clean_name, <<"S","2">>) THEN "Sentinel-2"
     ELSE "Other"

(* ----------------------------- values ---------------------------------- *)
\* Python's None and an exception in flight
NoneV == [kind |-> "None"]
RaisedV == [kind |-> "Raised"]

Max3(t) ==
  IF t[1] >= t[2] /\ t[1] >= t[3] THEN t[1]
  ELSE IF t[2] >= t[3] THEN t[2] ELSE t[3]

\* the label rasters the directory scan can meet: status says where a read
\* of the file fails, water is the number of pixels of band 1 equal to 1
Dims == {d \in (1..MaxPixels) \X (1..MaxPixels) : d[1] * d[2] <= MaxPixels}

LabelFiles ==
  {[kind |-> "raster", status |-> "open_fail", width |-> 1, height |-> 1, water |-> 0]}
  \cup {[kind |-> "raster", status |-> "read_fail", width |-> d[1], height |-> d[2],
          water |-> 0] :
          d \in Dims}
  \cup UNION {{[kind |-> "raster", status |-> "ok", width |-> d[1],
                height |-> d[2], water |-> k] :
                 k \in 0..(d[1] * d[2])} : d \in Dims}

\* the rasters a sample read can meet
SceneRasters ==
  {[kind |-> "raster", status |-> "open_fail", count |-> 0]}
  \cup {[kind |-> "raster", status |-> st, count |-> c] :
          st \in {"read_fail", "ok"}, c \in 1..MaxBands}

\* the label rasters of one pixel
UnitLabels == {r \in LabelFiles : r.width = 1 /\ r.height = 1}

SampleLabels == {r \in UnitLabels : r.water = 0}

\* names the label directory can hold
DirNames ==
  { <<"I","8","a">> \o TIF_SUFFIX,
    <<"I","8","a">> \o TRUTH_SUFFIX,
    <<"I","8","b">> \o TRUTH_SUFFIX,
    <<"S","2">> \o TRUTH_SUFFIX }

\* os.listdir: at most MaxFiles distinct names, in any order
Listings ==
  {l \in UNION {[1..n -> DirNames] : n \in 0..MaxFiles} :
     \A a, b \in DOMAIN l : a # b => l[a] # l[b]}

\* mutant of TruthFiles: the suffix filter is dropped
TruthFiles_All(l) == l

\* [f for f in listing if f.endswith("_truth.tif")]
RECURSIVE TruthFiles(_)
TruthFiles(l) ==
  IF l = <<>> THEN <<>>
  ELSE IF EndsWith(Head(l), TRUTH_SUFFIX)
       THEN <<Head(l)>> \o TruthFiles(Tail(l))
       ELSE TruthFiles(Tail(l))

\* defaultdict(int): d[k] += n
Get(d, k) == IF k \in DOMAIN d THEN d[k] ELSE 0

Add(d, k, n) ==
  [x \in (DOMAIN d) \cup {k} |-> IF x = k THEN Get(d, k) + n ELSE d[x]]

EmptyDict == [x \in {} |-> 0]

(* --------------------------- raster reads ------------------------------ *)
\* src.read(indexes) of a scene raster: raises on a band index out of range
\* or on a failing read
SrcRead(r, indexes) ==
  IF r.status = "ok" /\ \A k \in DOMAIN indexes : indexes[k] \in 1..r.count
  THEN [kind |-> "image", bands |-> indexes, stretched |-> FALSE]
  ELSE RaisedV

\* transpose, percentile stretch and clip to [0, 1]
Stretch(a) == [a EXCEPT !.stretched = TRUE]

\* the warning branch of read_multiband_image
TooFewBands(r, satellite_type) == r.count < Max3(get_rgb_bands(satellite_type))

\* mutant of ReadImageBody: no fallback to the first three bands
ReadImageBody_NoFallback(r, satellite_type) ==
  LET raw == SrcRead(r, get_rgb_bands(satellite_type))
  IN IF raw.kind = "Raised" THEN raw ELSE Stretch(raw)

\* body of the with block of read_multiband_image
ReadImageBody(r, satellite_type) ==
  LET rgb_indices == get_rgb_bands(satellite_type)
      raw == IF TooFewBands(r, satellite_type)
             THEN SrcRead(r, <<1, 2, 3>>)
             ELSE SrcRead(r, rgb_indices)
  IN IF raw.kind = "Raised" THEN raw ELSE Stretch(raw)

\* except ...: return None
Catch(v) == IF v.kind = "Raised" THEN NoneV ELSE v

\* src.read(1) of a label raster
LabelRead(r) ==
  IF r.status = "ok"
  THEN [kind |-> "array", size |-> r.width * r.height, water |-> r.water]
  ELSE RaisedV

(* ----------------------------- figures --------------------------------- *)
FIG1_PDF == <<"F","i","g","1","_","C","o","m","b","i","n","e","d","_","S","t","a","t","s","_","V","2",".","p","d","f">>
FIG3_PNG == <<"F","i","g","3","_","W","a","t","e","r","_","H","i","s","t",".","p","n","g">>
FIG2_PNG == <<"F","i","g","2","_","S","a","m","p","l","e","s",".","p","n","g">>
PDF_EXT == <<".","p","d","f">>
PNG_EXT == <<".","p","n","g">>

(* ------------------------------ state ---------------------------------- *)
VARIABLES
  pc,                \* position of the run
  listing,           \* os.listdir(TRUTH_DIR)
  fs,                \* the label raster behind each listed label file
  truth_files,       \* calculate_dataset_stats: the filtered listing
  idx,               \* calculate_dataset_stats: position of the for loop
  f,                 \* calculate_dataset_stats: the loop variable
  sat_type,          \* the satellite label of the current file
  sat_pixel_counts, sat_scene_counts, water_counts, water_ratios,
  src,               \* the dataset bound by the current with block
  handles,           \* paths of the raster handles that are open
  calls,             \* the renderers main has called, in order
  outputs,           \* the paths written by savefig, in order
  si,                \* plot_samples: position of the for loop (i + 1)
  scene_name,        \* plot_samples: the loop variable
  img, lbl,          \* plot_samples: the results of the two reads
  warned,            \* paths read_multiband_image printed a warning for
  panels,            \* plot_samples: the grid cells drawn
  sample_reads       \* plot_samples: per sample, which reads gave a result

vars ==
  <<pc, listing, fs, truth_files, idx, f, sat_type, sat_pixel_counts,
    sat_scene_counts, water_counts, water_ratios, src, handles, calls,
    outputs, si, scene_name, img, lbl, warned, panels, sample_reads>>

scanVars ==
  <<truth_files, idx, f, sat_pixel_counts, sat_scene_counts, water_counts,
    water_ratios>>

sampleVars == <<si, scene_name, img, lbl, warned, panels, sample_reads>>

envVars == <<listing, fs>>

\* the state before anything runs, apart from the inputs
Blank ==
  /\ truth_files = <<>>
  /\ idx = 1
  /\ sat_pixel_counts = EmptyDict
  /\ sat_scene_counts = EmptyDict
  /\ water_counts = [k \in {"Water", "Non-water"} |-> 0]
  /\ water_ratios = <<>>
  /\ src = NoneV
  /\ handles = {}
  /\ calls = <<>>
  /\ outputs = <<>>
  /\ si = 1
  /\ img = NoneV
  /\ lbl = NoneV
  /\ warned = {}
  /\ panels = {}
  /\ sample_reads = <<>>

\* a label directory whose files hold rasters of the set Rs; what a file
\* without the suffix holds is never read
Directory(Rs) ==
  /\ listing \in Listings
  /\ fs \in [{listing[k] : k \in DOMAIN listing} -> Rs]
  /\ \A n \in DOMAIN fs :
       ~EndsWith(n, TRUTH_SUFFIX) =>
          fs[n] = CHOOSE r \in UnitLabels : r.status = "open_fail"

\* a whole run of main, over label rasters of one pixel
Init ==
  /\ pc = "main"
  /\ Directory(UnitLabels)
  /\ f = <<>>
  /\ sat_type = "Other"
  /\ scene_name = <<>>
  /\ Blank

(* ---------------------- calculate_dataset_stats ------------------------ *)
\* main calls calculate_dataset_stats: fresh aggregates, filtered listing
ScanStart ==
  /\ pc = "main"
  /\ truth_files' = TruthFiles(listing)
  /\ sat_pixel_counts' = EmptyDict
  /\ sat_scene_counts' = EmptyDict
  /\ water_counts' = [k \in {"Water", "Non-water"} |-> 0]
  /\ water_ratios' = <<>>
  /\ idx' = 1
  /\ pc' = "scan"
  /\ UNCHANGED <<envVars, f, sat_type, src, handles, calls, outputs, sampleVars>>

\* head of the for loop up to the try: classify, count the scene
ScanNext ==
  /\ pc = "scan"
  /\ idx <= Len(truth_files)
  /\ f' = truth_files[idx]
  /\ sat_type' = detect_satellite(truth_files[idx])
  /\ sat_scene_counts' = Add(sat_scene_counts, detect_satellite(truth_files[idx]), 1)
  /\ pc' = "scan_open"
  /\ UNCHANGED <<envVars, truth_files, idx, sat_pixel_counts, water_counts,
                 water_ratios, src, handles, calls, outputs, sampleVars>>

\* mutant of ScanOpen: a file that fails to open ends the scan
ScanOpen_Abort ==
  /\ pc = "scan_open"
  /\ IF fs[f].status = "open_fail"
     THEN /\ idx' = Len(truth_files) + 1
          /\ pc' = "scan"
          /\ UNCHANGED <<src, handles>>
     ELSE /\ src' = fs[f]
          /\ handles' = handles \cup {PathJoin(TRUTH_DIR, f)}
          /\ pc' = "scan_body"
          /\ UNCHANGED idx
  /\ UNCHANGED <<envVars, truth_files, f, sat_type, sat_pixel_counts,
                 sat_scene_counts, water_counts, water_ratios, calls, outputs,
                 sampleVars>>

\* with rasterio.open(path) as src; a failure goes to except: pass
ScanOpen ==
  /\ pc = "scan_open"
  /\ IF fs[f].status = "open_fail"
     THEN /\ idx' = idx + 1
          /\ pc' = "scan"
          /\ UNCHANGED <<src, handles>>
     ELSE /\ src' = fs[f]
          /\ handles' = handles \cup {PathJoin(TRUTH_DIR, f)}
          /\ pc' = "scan_body"
          /\ UNCHANGED idx
  /\ UNCHANGED <<envVars, truth_files, f, sat_type, sat_pixel_counts,
                 sat_scene_counts, water_counts, water_ratios, calls, outputs,
                 sampleVars>>

\* mutant of ScanBody: the handle is closed only when the band read succeeds
ScanBody_Leak ==
  /\ pc = "scan_body"
  /\ sat_pixel_counts' = Add(sat_pixel_counts, sat_type, src.width * src.height)
  /\ LET l == LabelRead(src)
     IN IF l.kind = "Raised"
        THEN UNCHANGED <<water_counts, water_ratios, handles>>
        ELSE /\ water_counts' =
                  [water_counts EXCEPT !["Water"] = @ + l.water,
                                       !["Non-water"] = @ + (l.size - l.water)]
             /\ water_ratios' = Append(water_ratios, <<l.water, l.size>>)
             /\ handles' = handles \ {PathJoin(TRUTH_DIR, f)}
  /\ idx' = idx + 1
  /\ pc' = "scan"
  /\ UNCHANGED <<envVars, truth_files, f, sat_type, sat_scene_counts, src,
                 calls, outputs, sampleVars>>

\* body of the with block, its exit and except: pass
ScanBody ==
  /\ pc = "scan_body"
  /\ sat_pixel_counts' = Add(sat_pixel_counts, sat_type, src.width * src.height)
  /\ LET l == LabelRead(src)
     IN IF l.kind = "Raised"
        THEN UNCHANGED <<water_counts, water_ratios>>
        ELSE /\ water_counts' =
                  [water_counts EXCEPT !["Water"] = @ + l.water,
                                       !["Non-water"] = @ + (l.size - l.water)]
             /\ water_ratios' = Append(water_ratios, <<l.water, l.size>>)
  /\ handles' = handles \ {PathJoin(TRUTH_DIR, f)}
  /\ idx' = idx + 1
  /\ pc' = "scan"
  /\ UNCHANGED <<envVars, truth_files, f, sat_type, sat_scene_counts, src,
                 calls, outputs, sampleVars>>

\* the for loop is exhausted: return the four aggregates
ScanReturn ==
  /\ pc = "scan"
  /\ idx > Len(truth_files)
  /\ src' = NoneV
  /\ pc' = "check"
  /\ UNCHANGED <<envVars, scanVars, sat_type, handles, calls, outputs,
                 sampleVars>>

(* ------------------------------- main ---------------------------------- *)
\* mutant of MainCheck: the renderers are called without the guard
MainCheck_NoGuard ==
  /\ pc = "check"
  /\ pc' = "plot_combined"
  /\ UNCHANGED <<envVars, scanVars, sat_type, src, handles, calls, outputs,
                 sampleVars>>

\* mutant of MainCheck: the guard tests sat_scenes instead of sat_pixels
MainCheck_Scenes ==
  /\ pc = "check"
  /\ pc' = IF DOMAIN sat_scene_counts # {} THEN "plot_combined" ELSE "done"
  /\ UNCHANGED <<envVars, scanVars, sat_type, src, handles, calls, outputs,
                 sampleVars>>

\* if sat_pixels:
MainCheck ==
  /\ pc = "check"
  /\ pc' = IF DOMAIN sat_pixel_counts # {} THEN "plot_combined" ELSE "done"
  /\ UNCHANGED <<envVars, scanVars, sat_type, src, handles, calls, outputs,
                 sampleVars>>

plot_combined_statistics ==
  /\ pc = "plot_combined"
  /\ calls' = Append(calls, "plot_combined_statistics")
  /\ outputs' = outputs \o
       << PathJoin(OUTPUT_DIR, FIG1_PDF),
          PathJoin(OUTPUT_DIR, Replace(FIG1_PDF, PDF_EXT, PNG_EXT)) >>
  /\ pc' = "plot_water"
  /\ UNCHANGED <<envVars, scanVars, sat_type, src, handles, sampleVars>>

plot_water_distribution ==
  /\ pc = "plot_water"
  /\ calls' = Append(calls, "plot_water_distribution")
  /\ outputs' = Append(outputs, PathJoin(OUTPUT_DIR, FIG3_PNG))
  /\ pc' = "plot_samples"
  /\ UNCHANGED <<envVars, scanVars, sat_type, src, handles, sampleVars>>

(* ---------------------------- plot_samples ----------------------------- *)
\* entry of plot_samples: the figure and its grid
SamplesStart ==
  /\ pc = "plot_samples"
  /\ calls' = Append(calls, "plot_samples")
  /\ si' = 1
  /\ pc' = "samples"
  /\ UNCHANGED <<envVars, scanVars, sat_type, src, handles, outputs,
                 scene_name, img, lbl, warned, panels, sample_reads>>

\* head of the for loop: the scene name and its satellite type
SampleNext ==
  /\ pc = "samples"
  /\ si <= Len(SAMPLE_SCENES)
  /\ scene_name' = SAMPLE_SCENES[si]
  /\ sat_type' = detect_satellite(SAMPLE_SCENES[si])
  /\ pc' = "img_open"
  /\ UNCHANGED <<envVars, scanVars, src, handles, calls, outputs, si, img, lbl,
                 warned, panels, sample_reads>>

\* read_multiband_image up to rasterio.open
ImgOpen ==
  /\ pc = "img_open"
  /\ \E r \in SceneRasters :
       IF r.status = "open_fail"
       THEN /\ img' = Catch(RaisedV)
            /\ src' = NoneV
            /\ pc' = "lbl_open"
            /\ UNCHANGED handles
       ELSE /\ src' = r
            /\ handles' = handles \cup {PathJoin(SCENE_DIR, scene_name)}
            /\ pc' = "img_read"
            /\ UNCHANGED img
  /\ UNCHANGED <<envVars, scanVars, sat_type, calls, outputs, si, scene_name,
                 lbl, warned, panels, sample_reads>>

\* read_multiband_image: body of the with block, its exit, the except clause
ImgRead ==
  /\ pc = "img_read"
  /\ warned' = IF TooFewBands(src, sat_type)
               THEN warned \cup {PathJoin(SCENE_DIR, scene_name)}
               ELSE warned
  /\ img' = Catch(ReadImageBody(src, sat_type))
  /\ handles' = handles \ {PathJoin(SCENE_DIR, scene_name)}
  /\ pc' = "img_ret"
  /\ UNCHANGED <<envVars, scanVars, sat_type, src, calls, outputs, si,
                 scene_name, lbl, panels, sample_reads>>

\* read_multiband_image returns to plot_samples; its local src is gone
ImgReturn ==
  /\ pc = "img_ret"
  /\ src' = NoneV
  /\ pc' = "lbl_open"
  /\ UNCHANGED <<envVars, scanVars, sat_type, handles, calls, outputs,
                 sampleVars>>

\* scene_name.replace(".tif", "_truth.tif")
TruthName(name) == Replace(name, TIF_SUFFIX, TRUTH_SUFFIX)

\* read_label up to rasterio.open
LblOpen ==
  /\ pc = "lbl_open"
  /\ \E r \in SampleLabels :
       IF r.status = "open_fail"
       THEN /\ lbl' = Catch(RaisedV)
            /\ src' = NoneV
            /\ pc' = "draw"
            /\ UNCHANGED handles
       ELSE /\ src' = r
            /\ handles' = handles \cup {PathJoin(TRUTH_DIR, TruthName(scene_name))}
            /\ pc' = "lbl_read"
            /\ UNCHANGED lbl
  /\ UNCHANGED <<envVars, scanVars, sat_type, calls, outputs, si, scene_name,
                 img, warned, panels, sample_reads>>

\* read_label: src.read(1), the exit of the with block, the except clause
LblRead ==
  /\ pc = "lbl_read"
  /\ lbl' = Catch(LabelRead(src))
  /\ handles' = handles \ {PathJoin(TRUTH_DIR, TruthName(scene_name))}
  /\ src' = NoneV
  /\ pc' = "draw"
  /\ UNCHANGED <<envVars, scanVars, sat_type, calls, outputs, si,
                 scene_name, img, warned, panels, sample_reads>>

\* mutant of SampleDraw: only a missing image skips the row
SampleDraw_ImgOnly ==
  /\ pc = "draw"
  /\ panels' = IF img.kind = "None"
               THEN panels
               ELSE panels \cup {<<si, 0>>, <<si, 1>>}
  /\ sample_reads' = Append(sample_reads, <<img.kind # "None", lbl.kind # "None">>)
  /\ si' = si + 1
  /\ pc' = "samples"
  /\ UNCHANGED <<envVars, scanVars, sat_type, src, handles, calls, outputs,
                 scene_name, img, lbl, warned>>

\* if img is None or lbl is None: continue; else draw the two panels of row i
SampleDraw ==
  /\ pc = "draw"
  /\ panels' = IF img.kind = "None" \/ lbl.kind = "None"
               THEN panels
               ELSE panels \cup {<<si, 0>>, <<si, 1>>}
  /\ sample_reads' = Append(sample_reads, <<img.kind # "None", lbl.kind # "None">>)
  /\ si' = si + 1
  /\ pc' = "samples"
  /\ UNCHANGED <<envVars, scanVars, sat_type, src, handles, calls, outputs,
                 scene_name, img, lbl, warned>>

\* after the loop: savefig twice, close
SamplesSave ==
  /\ pc = "samples"
  /\ si > Len(SAMPLE_SCENES)
  /\ outputs' = outputs \o
       << PathJoin(OUTPUT_DIR, Replace(FIG2_PNG, PNG_EXT, PDF_EXT)),
          PathJoin(OUTPUT_DIR, FIG2_PNG) >>
  /\ pc' = "done"
  /\ UNCHANGED <<envVars, scanVars, sat_type, src, handles, calls, sampleVars>>

Next ==
  \/ ScanStart
  \/ ScanNext
  \/ ScanOpen
  \/ ScanBody
  \/ ScanReturn
  \/ MainCheck
  \/ plot_combined_statistics
  \/ plot_water_distribution
  \/ SamplesStart
  \/ SampleNext
  \/ ImgOpen
  \/ ImgRead
  \/ ImgReturn
  \/ LblOpen
  \/ LblRead
  \/ SampleDraw
  \/ SamplesSave

Spec == Init /\ [][Next]_vars

(* ----------------- calculate_dataset_stats on its own ------------------ *)
\* the scan alone, over label rasters of every size up to MaxPixels
InitScan ==
  /\ pc = "main"
  /\ Directory(LabelFiles)
  /\ f = <<>>
  /\ sat_type = "Other"
  /\ scene_name = <<>>
  /\ Blank

NextScan ==
  \/ ScanStart
  \/ ScanNext
  \/ ScanOpen
  \/ ScanBody
  \/ ScanReturn

SpecScan == InitScan /\ [][NextScan]_vars

(* ------------------- detect_satellite on its own ----------------------- *)
\* the pieces classifier test filenames are built from
Pieces ==
  { <<"I">>, <<"S">>, <<"2">>, <<"5">>, <<"7">>, <<"8">>, <<"9">>, <<"x">>,
    TRUTH_SUFFIX }

RECURSIVE Concat(_)
Concat(ps) == IF ps = <<>> THEN <<>> ELSE Head(ps) \o Concat(Tail(ps))

TestNames == {Concat(ps) : ps \in UNION {[1..n -> Pieces] : n \in 0..MaxPieces}}

InitDetect ==
  /\ pc = "detect"
  /\ f \in TestNames
  /\ sat_type = "Other"
  /\ scene_name = <<>>
  /\ listing = <<>>
  /\ fs = <<>>
  /\ Blank

\* sat_type = detect_satellite(f)
DetectSatellite ==
  /\ pc = "detect"
  /\ sat_type' = detect_satellite(f)
  /\ pc' = "detected"
  /\ UNCHANGED <<envVars, scanVars, src, handles, calls, outputs, sampleVars>>

NextDetect == DetectSatellite

SpecDetect == InitDetect /\ [][NextDetect]_vars

(* ----------------- read_multiband_image on its own --------------------- *)
\* every label of BAND_MAP and one that is not a key of it
ReadLabels == SatLabels \cup {"Unknown"}

InitRead ==
  /\ pc = "img_open"
  /\ sat_type \in ReadLabels
  /\ scene_name \in {SAMPLE_SCENES[k] : k \in DOMAIN SAMPLE_SCENES}
  /\ f = <<>>
  /\ listing = <<>>
  /\ fs = <<>>
  /\ Blank

NextRead ==
  \/ ImgOpen
  \/ ImgRead
  \/ ImgReturn

SpecRead == InitRead /\ [][NextRead]_vars

(* ============================ properties =============================== *)
RECURSIVE SumDict(_)
SumDict(d) ==
  IF DOMAIN d = {} THEN 0
  ELSE LET k == CHOOSE x \in DOMAIN d : TRUE
       IN d[k] + SumDict([x \in (DOMAIN d) \ {k} |-> d[x]])

\* the listed names that end in _truth.tif, in listing order
ListedTruth == SelectSeq(listing, LAMBDA n : EndsWith(n, TRUTH_SUFFIX))

Front(q) == SubSeq(q, 1, Len(q) - 1)

Last(q) == q[Len(q)]

\* per-satellite scene counts over the names whose file status is in St
RECURSIVE ScenesOf(_, _)
ScenesOf(names, St) ==
  IF names = <<>> THEN EmptyDict
  ELSE IF fs[Last(names)].status \in St
       THEN Add(ScenesOf(Front(names), St), detect_satellite(Last(names)), 1)
       ELSE ScenesOf(Front(names), St)

\* per-satellite pixel counts over the names whose file status is in St
RECURSIVE PixelsOf(_, _)
PixelsOf(names, St) ==
  IF names = <<>> THEN EmptyDict
  ELSE IF fs[Last(names)].status \in St
       THEN Add(PixelsOf(Front(names), St), detect_satellite(Last(names)),
                fs[Last(names)].width * fs[Last(names)].height)
       ELSE PixelsOf(Front(names), St)

\* Water / Non-water counts and the ratio list over the readable names
RECURSIVE WaterOf(_)
WaterOf(names) ==
  IF names = <<>> THEN 0
  ELSE WaterOf(Front(names))
       + (IF fs[Last(names)].status = "ok" THEN fs[Last(names)].water ELSE 0)

RECURSIVE NonWaterOf(_)
NonWaterOf(names) ==
  IF names = <<>> THEN 0
  ELSE NonWaterOf(Front(names))
       + (IF fs[Last(names)].status = "ok"
          THEN fs[Last(names)].width * fs[Last(names)].height - fs[Last(names)].water
          ELSE 0)

RECURSIVE RatiosOf(_)
RatiosOf(names) ==
  IF names = <<>> THEN <<>>
  ELSE IF fs[Last(names)].status = "ok"
       THEN Append(RatiosOf(Front(names)),
                   <<fs[Last(names)].water,
                     fs[Last(names)].width * fs[Last(names)].height>>)
       ELSE RatiosOf(Front(names))

AllStatus == {"open_fail", "read_fail", "ok"}

AllRenderers ==
  <<"plot_combined_statistics", "plot_water_distribution", "plot_samples">>

Written(name) == \E k \in DOMAIN outputs : outputs[k] = PathJoin(OUTPUT_DIR, name)

TimesWritten(name) ==
  Cardinality({k \in DOMAIN outputs : outputs[k] = PathJoin(OUTPUT_DIR, name)})

Called(fn) == \E k \in DOMAIN calls : calls[k] = fn

FIG1_STEM ==
  <<"F","i","g","1","_","C","o","m","b","i","n","e","d","_","S","t","a","t",
    "s","_","V","2">>
FIG3_STEM == <<"F","i","g","3","_","W","a","t","e","r","_","H","i","s","t">>
FIG2_STEM == <<"F","i","g","2","_","S","a","m","p","l","e","s">>

\* C1: when calculate_dataset_stats has returned, Water + Non-water equals
\* the sum of the per-satellite pixel counts, whichever files failed to read.
C1_CountsMatchPixels ==
  pc = "check" =>
    water_counts["Water"] + water_counts["Non-water"] = SumDict(sat_pixel_counts)

\* C2: when calculate_dataset_stats has returned, the per-satellite scene
\* counts add up to the number of listed names ending in _truth.tif,
\* readable or not.
C2_SceneCountIsFileCount ==
  pc = "check" => SumDict(sat_scene_counts) = Len(ListedTruth)

C2_Witness ==
  /\ pc = "check"
  /\ Len(ListedTruth) < Len(listing)
  /\ \E k \in DOMAIN ListedTruth : fs[ListedTruth[k]].status # "ok"
  /\ SumDict(sat_scene_counts) > 0

\* C3 as stated: a file whose read fails leaves all four aggregates as if it
\* had not been listed, and the files after it are processed.
C3_FailedFileChangesNothing ==
  pc = "check" =>
    /\ sat_pixel_counts = PixelsOf(ListedTruth, {"ok"})
    /\ sat_scene_counts = ScenesOf(ListedTruth, {"ok"})
    /\ water_counts["Water"] = WaterOf(ListedTruth)
    /\ water_counts["Non-water"] = NonWaterOf(ListedTruth)
    /\ water_ratios = RatiosOf(ListedTruth)

\* C3 amended: a file whose read fails leaves the Water/Non-water counts and
\* the ratio list as if it had not been listed; it still adds one to its
\* satellite's scene count, and when it opened (the failure is at the band
\* read) its width x height to its satellite's pixel count; the files after
\* it are processed.
C3_FailedFileKeepsWaterStats ==
  pc = "check" =>
    /\ sat_pixel_counts = PixelsOf(ListedTruth, {"ok", "read_fail"})
    /\ sat_scene_counts = ScenesOf(ListedTruth, AllStatus)
    /\ water_counts["Water"] = WaterOf(ListedTruth)
    /\ water_counts["Non-water"] = NonWaterOf(ListedTruth)
    /\ water_ratios = RatiosOf(ListedTruth)

C3_Witness ==
  /\ pc = "check"
  /\ \E j, k \in DOMAIN ListedTruth :
       /\ j < k
       /\ fs[ListedTruth[j]].status # "ok"
       /\ fs[ListedTruth[k]].status = "ok"
  /\ water_ratios # <<>>

\* C4: with no name ending in _truth.tif in the directory, the aggregates
\* returned are empty, main calls no renderer and no figure is written.
C4_EmptyInputNoFigures ==
  ListedTruth = <<>> =>
    /\ calls = <<>>
    /\ outputs = <<>>
    /\ pc \in {"check", "done"} =>
         /\ DOMAIN sat_pixel_counts = {}
         /\ DOMAIN sat_scene_counts = {}
         /\ water_counts["Water"] = 0
         /\ water_counts["Non-water"] = 0
         /\ water_ratios = <<>>

C4_Witness ==
  /\ pc = "done"
  /\ listing # <<>>
  /\ ListedTruth = <<>>
  /\ outputs = <<>>

PrefixLabel(name) ==
  IF StartsWith(name, <<"I","5">>) THEN "Landsat-5"
  ELSE IF StartsWith(name, <<"I","7">>) THEN "Landsat-7"
  ELSE IF StartsWith(name, <<"I","8">>) THEN "Landsat-8"
  ELSE IF StartsWith(name, <<"I","9">>) THEN "Landsat-9"
  ELSE IF StartsWith(name, <<"S","2">>) THEN "Sentinel-2"
  ELSE "Other"

\* C6: detect_satellite returns the label of the prefix the filename begins
\* with, and Other for every filename that begins with none of the prefixes.
C6_LabelFollowsPrefix ==
  pc = "detected" => sat_type = PrefixLabel(f)

Fallback123 == [kind |-> "image", bands |-> <<1, 2, 3>>, stretched |-> TRUE]

\* C7 as stated: a raster that opens with fewer bands than the largest index
\* requested is warned about and read as the stretched bands (1,2,3), and no
\* exception reaches the caller.
C7_FallbackAlwaysReturnsImage ==
  /\ pc \in {"img_ret", "lbl_open"} => img.kind # "Raised"
  /\ (pc = "img_ret" /\ src.status = "ok"
        /\ src.count < Max3(get_rgb_bands(sat_type))) =>
       /\ PathJoin(SCENE_DIR, scene_name) \in warned
       /\ img = Fallback123

\* C7 amended: a raster that opens with fewer bands than the largest index
\* requested is warned about; with at least 3 bands the stretched bands
\* (1,2,3) are returned, with 1 or 2 bands the fallback read fails and None
\* is returned (as for any failing band read); no exception reaches the
\* caller.
C7_FallbackNeedsThreeBands ==
  /\ pc \in {"img_ret", "lbl_open"} => img.kind # "Raised"
  /\ (pc = "img_ret" /\ src.count < Max3(get_rgb_bands(sat_type))) =>
       /\ PathJoin(SCENE_DIR, scene_name) \in warned
       /\ IF src.count >= 3 /\ src.status = "ok"
          THEN img = Fallback123
          ELSE img = NoneV

C7_Witness ==
  /\ pc = "img_ret"
  /\ sat_type = "Landsat-9"
  /\ src.count = 4
  /\ src.status = "ok"
  /\ img = Fallback123
  /\ warned # {}

\* C8: once a renderer has returned, its figure exists both as .pdf and as
\* .png in the output directory.
C8_EveryFigureInBothFormats ==
  /\ Called("plot_combined_statistics") =>
       Written(FIG1_STEM \o PDF_EXT) /\ Written(FIG1_STEM \o PNG_EXT)
  /\ Called("plot_water_distribution") =>
       Written(FIG3_STEM \o PDF_EXT) /\ Written(FIG3_STEM \o PNG_EXT)
  /\ (pc = "done" /\ Called("plot_samples")) =>
       Written(FIG2_STEM \o PDF_EXT) /\ Written(FIG2_STEM \o PNG_EXT)

Both(r) == r[1] /\ r[2]

\* C9: the two panels of row i are drawn exactly when both reads of sample i
\* gave a result; a skipped sample does not stop the loop; the figure is
\* saved once, after the loop, however many samples were skipped.
C9_PanelsIffBothReads ==
  /\ \A k \in DOMAIN sample_reads :
       /\ <<k, 0>> \in panels <=> Both(sample_reads[k])
       /\ <<k, 1>> \in panels <=> Both(sample_reads[k])
  /\ \A p \in panels : p[1] \in DOMAIN sample_reads
  /\ pc # "done" =>
       TimesWritten(FIG2_STEM \o PDF_EXT) + TimesWritten(FIG2_STEM \o PNG_EXT) = 0
  /\ (pc = "done" /\ Called("plot_samples")) =>
       /\ Len(sample_reads) = Len(SAMPLE_SCENES)
       /\ TimesWritten(FIG2_STEM \o PDF_EXT) = 1
       /\ TimesWritten(FIG2_STEM \o PNG_EXT) = 1

C9_Witness ==
  /\ pc = "done"
  /\ Len(sample_reads) = 2
  /\ ~Both(sample_reads[1])
  /\ Both(sample_reads[2])
  /\ panels = {<<2, 0>>, <<2, 1>>}
  /\ Written(FIG2_STEM \o PNG_EXT)

\* C10: at most one raster handle is open at any time, and one is open only
\* between an open and the end of its with block: none at the head of a
\* scan or sample iteration, nor after any reader or the scanner returns.
C10_HandlesScoped ==
  /\ Cardinality(handles) <= 1
  /\ pc \notin {"scan_body", "img_read", "lbl_read"} => handles = {}

C10_Witness ==
  /\ pc = "scan"
  /\ idx = 2
  /\ fs[truth_files[1]].status = "read_fail"
  /\ handles = {}

====
